---- MODULE Spec2Model ----
(***************************************************************************)
(* Clone genealogy engine of src/src/clone_genealogy/core.py: fragment and *)
(* clone-class matching, GetPattern classification, and the sequential     *)
(* driver get_clone_genealogy that threads them over a list of commits.    *)
(* Spec is one run of the driver, SpecPure applies the pure functions to    *)
(* pairs of clone classes, SpecProjects runs two projects over one disk.   *)
(***************************************************************************)
EXTENDS Integers, Sequences, FiniteSets, TLC

VARIABLES
    merged_commits,   \* the sorted commit descriptors of the run
    project,          \* which repository the detector is looking at
    hash_index,       \* 1-based counter of the commit being analysed
    pc,               \* position of get_clone_genealogy
    genealogy_data,   \* ctx.state.genealogy_data: list of Lineages
    result_xml,       \* paths.clone_detector_xml: the detector's result file
    pcloneclasses,    \* classes parsed by RunGenealogyAnalysis
    ci,               \* index of the class the analysis loop is at
    genealogy_xml,    \* paths.genealogy_xml: the per-revision checkpoint
    final_xml,        \* the result file written after the last commit
    errors_log,       \* what logging.error recorded: (index, function)
    pin1, pin2,       \* inputs of the function under study
    pout,             \* its result
    runs,             \* two calls of get_clone_genealogy: ctx of each
    disk              \* files under cloned_repositories/, by workspace

vars == <<merged_commits, project, hash_index, pc, genealogy_data, result_xml,
          pcloneclasses, ci, genealogy_xml, final_xml, errors_log,
          pin1, pin2, pout, runs, disk>>

driverVars == <<merged_commits, project, hash_index, pc, genealogy_data,
                result_xml, pcloneclasses, ci, genealogy_xml, final_xml,
                errors_log>>

pureVars == <<pin1, pin2, pout>>

projectVars == <<runs, disk>>

----------------------------------------------------------------------------
(* Bounds *)

NumLocs == 3        \* fragment locations a detector output may name
MaxRevs == 3        \* commits in merged_commits
MaxClasses == 3     \* clone classes in one detector output

----------------------------------------------------------------------------
(* Fragments *)

\* (file, startline, endline) references found in detector outputs
LocTable ==
    << [file |-> "A", ls |-> 10, le |-> 20],
       [file |-> "B", ls |-> 30, le |-> 40],
       [file |-> "C", ls |-> 50, le |-> 60],
       [file |-> "A", ls |-> 30, le |-> 45],
       [file |-> "D", ls |-> 5,  le |-> 9] >>

\* simhash values: 0 and 1 differ in 1 bit, 1 and 127 in 6, 0 and 127 in 7
Hashes == {0, 1, 127}

HashBits == 64

\* threshold passed to match_hashes by CloneFragment.matches, in percent
MatchThreshold == 90

\* CloneFragment.__init__; h is generate_simhash of the text read from file
CloneFragment(file, ls, le, h) ==
    [file |-> file, ls |-> ls, le |-> le, hash |-> h]

FragAt(i, h) == CloneFragment(LocTable[i].file, LocTable[i].ls, LocTable[i].le, h)

RECURSIVE Hamming(_, _)
Hamming(a, b) ==
    IF a = 0 /\ b = 0 THEN 0
    ELSE (IF a % 2 = b % 2 THEN 0 ELSE 1) + Hamming(a \div 2, b \div 2)

\* similarity of two fingerprints is the share of equal bits
match_hashes(h1, h2, threshold) ==
    (HashBits - Hamming(h1, h2)) * 100 >= threshold * HashBits

\* variant of CloneFragment_matches: only the fingerprints are compared
CloneFragment_matches_hashonly(self, other) ==
    match_hashes(self.hash, other.hash, MatchThreshold)

\* variant of CloneFragment_matches: the fingerprints are compared in order
CloneFragment_matches_ordered(self, other) ==
    IF self.file = other.file /\ self.ls = other.ls /\ self.le = other.le
    THEN TRUE
    ELSE self.hash <= other.hash
         /\ match_hashes(self.hash, other.hash, MatchThreshold)

CloneFragment_matches(self, other) ==
    IF self.file = other.file /\ self.ls = other.ls /\ self.le = other.le
    THEN TRUE
    ELSE match_hashes(self.hash, other.hash, MatchThreshold)

----------------------------------------------------------------------------
(* Clone classes *)

CloneClass(frags) == [fragments |-> frags]

CloneClass_contains(self, fragment) ==
    \E i \in 1..Len(self.fragments) :
        CloneFragment_matches(self.fragments[i], fragment)

RECURSIVE CountContained(_, _)
CountContained(self, frags) ==
    IF frags = <<>> THEN 0
    ELSE (IF CloneClass_contains(self, Head(frags)) THEN 1 ELSE 0)
         + CountContained(self, Tail(frags))

CloneClass_matches(self, cc) ==
    LET n == CountContained(self, cc.fragments)
    IN  (n = Len(cc.fragments)) \/ (n = Len(self.fragments))

----------------------------------------------------------------------------
(* Clone versions *)

\* defaults of CloneVersion.__init__, in parameter order:
\* cc, h, n, author_pr, evo, chan, n_evo, n_change, clones_loc
CloneVersionDefaults ==
    << "None", "None", "None", "None", "None", "None", 0, 0, 0 >>

CloneVersionArg(args, i) ==
    IF i <= Len(args) THEN args[i] ELSE CloneVersionDefaults[i]

\* a call with more positional arguments than parameters is a TypeError
CloneVersionRaises(args) == Len(args) > Len(CloneVersionDefaults)

\* CloneVersion(*args): positional arguments bind to the parameters in order
CloneVersion(args) ==
    [cloneclass        |-> CloneVersionArg(args, 1),
     hash              |-> CloneVersionArg(args, 2),
     nr                |-> CloneVersionArg(args, 3),
     author_pr         |-> CloneVersionArg(args, 4),
     evolution_pattern |-> CloneVersionArg(args, 5),
     change_pattern    |-> CloneVersionArg(args, 6),
     n_evo             |-> CloneVersionArg(args, 7),
     n_change          |-> CloneVersionArg(args, 8),
     clones_loc        |-> CloneVersionArg(args, 9)]

----------------------------------------------------------------------------
(* GetPattern *)

\* variant of GetPattern_evolution: the Add delta taken as |v1| - |v2|
GetPattern_evolution_delta(v1, v2) ==
    LET l1 == Len(v1.cloneclass.fragments)
        l2 == Len(v2.cloneclass.fragments)
    IN  IF l1 = l2 THEN [evolution |-> "Same", n_evo |-> 0]
        ELSE IF l1 > l2 THEN [evolution |-> "Subtract", n_evo |-> l1 - l2]
        ELSE [evolution |-> "Add", n_evo |-> l1 - l2]

GetPattern_evolution(v1, v2) ==
    LET l1 == Len(v1.cloneclass.fragments)
        l2 == Len(v2.cloneclass.fragments)
    IN  IF l1 = l2 THEN [evolution |-> "Same", n_evo |-> 0]
        ELSE IF l1 > l2 THEN [evolution |-> "Subtract", n_evo |-> l1 - l2]
        ELSE [evolution |-> "Add", n_evo |-> l2 - l1]

RECURSIVE matches_count(_, _)
matches_count(a, b) ==
    IF b = <<>> THEN 0
    ELSE (IF \E i \in 1..Len(a) : a[i].hash = Head(b).hash THEN 1 ELSE 0)
         + matches_count(a, Tail(b))

\* variant of GetPattern_change: Same/Subtract saturates at |v1|
GetPattern_change_v1base(v1, v2, evolution) ==
    LET l1 == Len(v1.cloneclass.fragments)
        l2 == Len(v2.cloneclass.fragments)
        nr_of_matches == matches_count(v1.cloneclass.fragments,
                                       v2.cloneclass.fragments)
    IN  IF evolution \in {"Same", "Subtract"}
        THEN IF nr_of_matches = l1
             THEN [change |-> "Same", n_change |-> 0]
             ELSE IF nr_of_matches = 0
             THEN [change |-> "Consistent", n_change |-> l2]
             ELSE [change |-> "Inconsistent", n_change |-> l2 - nr_of_matches]
        ELSE IF evolution = "Add"
        THEN IF nr_of_matches = l1
             THEN [change |-> "Same", n_change |-> 0]
             ELSE IF nr_of_matches = 0
             THEN [change |-> "Consistent", n_change |-> l2]
             ELSE [change |-> "Inconsistent", n_change |-> l2 - nr_of_matches]
        ELSE [change |-> "None", n_change |-> 0]

\* variant of GetPattern_change: Add saturates at |v2|
GetPattern_change_v2base(v1, v2, evolution) ==
    LET l1 == Len(v1.cloneclass.fragments)
        l2 == Len(v2.cloneclass.fragments)
        nr_of_matches == matches_count(v1.cloneclass.fragments,
                                       v2.cloneclass.fragments)
    IN  IF evolution \in {"Same", "Subtract"}
        THEN IF nr_of_matches = l2
             THEN [change |-> "Same", n_change |-> 0]
             ELSE IF nr_of_matches = 0
             THEN [change |-> "Consistent", n_change |-> l2]
             ELSE [change |-> "Inconsistent", n_change |-> l2 - nr_of_matches]
        ELSE IF evolution = "Add"
        THEN IF nr_of_matches = l2
             THEN [change |-> "Same", n_change |-> 0]
             ELSE IF nr_of_matches = 0
             THEN [change |-> "Consistent", n_change |-> l2]
             ELSE [change |-> "Inconsistent", n_change |-> l2 - nr_of_matches]
        ELSE [change |-> "None", n_change |-> 0]

GetPattern_change(v1, v2, evolution) ==
    LET l1 == Len(v1.cloneclass.fragments)
        l2 == Len(v2.cloneclass.fragments)
        nr_of_matches == matches_count(v1.cloneclass.fragments,
                                       v2.cloneclass.fragments)
    IN  IF evolution \in {"Same", "Subtract"}
        THEN IF nr_of_matches = l2
             THEN [change |-> "Same", n_change |-> 0]
             ELSE IF nr_of_matches = 0
             THEN [change |-> "Consistent", n_change |-> l2]
             ELSE [change |-> "Inconsistent", n_change |-> l2 - nr_of_matches]
        ELSE IF evolution = "Add"
        THEN IF nr_of_matches = l1
             THEN [change |-> "Same", n_change |-> 0]
             ELSE IF nr_of_matches = 0
             THEN [change |-> "Consistent", n_change |-> l2]
             ELSE [change |-> "Inconsistent", n_change |-> l2 - nr_of_matches]
        ELSE [change |-> "None", n_change |-> 0]

RECURSIVE SumLoc(_)
SumLoc(frags) ==
    IF frags = <<>> THEN 0
    ELSE (Head(frags).le - Head(frags).ls) + SumLoc(Tail(frags))

GetPattern_clones_loc(v1, v2) ==
    SumLoc(v2.cloneclass.fragments) - SumLoc(v1.cloneclass.fragments)

GetPattern(v1, v2) ==
    LET e == GetPattern_evolution(v1, v2)
        c == GetPattern_change(v1, v2, e.evolution)
    IN  [evolution  |-> e.evolution,
         change     |-> c.change,
         n_evo      |-> e.n_evo,
         n_change   |-> c.n_change,
         clones_loc |-> GetPattern_clones_loc(v1, v2)]

----------------------------------------------------------------------------
(* Lineages and the genealogy state *)

Last(s) == s[Len(s)]

Lineage(versions) == [versions |-> versions]

\* a Lineage is compared through the clone class of its latest version
Lineage_matches(lineage, cc) ==
    CloneClass_matches(Last(lineage.versions).cloneclass, cc)

\* variant of BirthLineage: the Lineage object is created once, outside the
\* loop, so every birth of the run lands in the same lineage
BirthLineage_shared(gd, v) ==
    IF gd = <<>> THEN <<Lineage(<<v>>)>>
    ELSE [gd EXCEPT ![Len(gd)].versions = Append(@, v)]

\* variant of BirthLineage: the new lineage is appended twice
BirthLineage_twice(gd, v) == Append(Append(gd, Lineage(<<v>>)), Lineage(<<v>>))

\* variant of BirthLineage: the new lineage is inserted at the head of the list
BirthLineage_front(gd, v) == <<Lineage(<<v>>)>> \o gd

\* l = Lineage(); l.versions.append(v); st.genealogy_data.append(l)
BirthLineage(gd, v) == Append(gd, Lineage(<<v>>))

\* the inner for loop of RunGenealogyAnalysis: index of the first lineage
\* that matches pcc and was not already extended at commitNr, 0 if none
RECURSIVE ScanLineages(_, _, _, _)
ScanLineages(gd, pcc, commitNr, k) ==
    IF k > Len(gd) THEN 0
    ELSE IF Lineage_matches(gd[k], pcc) /\ Last(gd[k].versions).nr # commitNr
         THEN k
         ELSE ScanLineages(gd, pcc, commitNr, k + 1)

----------------------------------------------------------------------------
(* Serialisation *)

CloneVersion_toXML(v) ==
    [nr         |-> v.nr,
     hash       |-> v.hash,
     evolution  |-> v.evolution_pattern,
     change     |-> v.change_pattern,
     author     |-> v.author_pr,
     n_evo      |-> v.n_evo,
     n_cha      |-> v.n_change,
     clones_LOC |-> v.clones_loc,
     class      |-> [nclones |-> Len(v.cloneclass.fragments),
                     sources |-> v.cloneclass.fragments]]

Lineage_toXML(l) ==
    [i \in 1..Len(l.versions) |-> CloneVersion_toXML(l.versions[i])]

LineagesXML(lineages) ==
    [exists |-> TRUE, complete |-> TRUE,
     lineages |-> [i \in 1..Len(lineages) |-> Lineage_toXML(lineages[i])]]

NoFile == [exists |-> FALSE, complete |-> FALSE, lineages |-> <<>>]

\* the file right after open(filename, "w+"): zero bytes, no <lineages> yet
TruncatedFile == [exists |-> TRUE, complete |-> FALSE, lineages |-> <<>>]

----------------------------------------------------------------------------
(* Inputs of the driver *)

ShaTable == <<"sha1", "sha2", "sha3", "sha4", "sha5">>

\* pull-request numbers in ascending order, written as toXML's %s prints them
PrNumberTable == <<"101", "102", "103", "104", "105">>

Commit(i) ==
    [sha       |-> ShaTable[i],
     pr_number |-> PrNumberTable[i],
     pr_type   |-> IF i % 2 = 1 THEN "human" ELSE "agent",
     language  |-> "java"]

CommitList(n) == [i \in 1..n |-> Commit(i)]

\* clone classes the detector may report for the repository "any"
ClassPool ==
    { CloneClass(<<FragAt(1, 0), FragAt(2, 0)>>),
      CloneClass(<<FragAt(1, 0), FragAt(2, 0), FragAt(3, 0)>>),
      CloneClass(<<FragAt(1, 0), FragAt(3, 0)>>),
      CloneClass(<<FragAt(5, 127)>>) }

\* lists of at most n distinct elements of S
RECURSIVE SeqsUpTo(_, _)
SeqsUpTo(S, n) ==
    IF n = 0 THEN {<<>>}
    ELSE LET shorter == SeqsUpTo(S, n - 1)
         IN  shorter \cup
             UNION { {Append(q, x) :
                         x \in {y \in S : \A i \in 1..Len(q) : q[i] # y}} :
                     q \in shorter }

DetectorOutputs == SeqsUpTo(ClassPool, MaxClasses)

\* the three revisions {A,B}, {A,B,C}, {A,C}, every fragment hashing to 0
ScenarioOutputs ==
    << <<CloneClass(<<FragAt(1, 0), FragAt(2, 0)>>)>>,
       <<CloneClass(<<FragAt(1, 0), FragAt(2, 0), FragAt(3, 0)>>)>>,
       <<CloneClass(<<FragAt(1, 0), FragAt(3, 0)>>)>> >>

\* variant of NoResultFile: the result file of an earlier run is left in place
StaleResultFile ==
    [exists |-> TRUE, classes |-> <<CloneClass(<<FragAt(5, 127)>>)>>]

NoResultFile == [exists |-> FALSE, classes |-> <<>>]

\* parseCloneClassFile: children without fragments are skipped
parseCloneClassFile(xml) ==
    SelectSeq(xml.classes, LAMBDA c : c.fragments # <<>>)

NoOutput == [op |-> "none"]

\* no second call of get_clone_genealogy is under way
NoRuns == <<>>

\* nothing under cloned_repositories/ yet
EmptyDisk == <<>>

EmptyClass == CloneClass(<<>>)

----------------------------------------------------------------------------
(* The driver get_clone_genealogy *)

Init ==
    /\ \/ /\ project = "any"
          /\ merged_commits \in {CommitList(n) : n \in 0..MaxRevs}
       \/ /\ project = "scenario"
          /\ merged_commits = CommitList(Len(ScenarioOutputs))
    /\ hash_index = 0
    /\ pc = "loop"
    /\ genealogy_data = <<>>
    /\ result_xml = NoResultFile
    /\ pcloneclasses = <<>>
    /\ ci = 0
    /\ genealogy_xml = NoFile
    /\ final_xml = NoFile
    /\ errors_log = {}
    /\ pin1 = EmptyClass
    /\ pin2 = EmptyClass
    /\ pout = NoOutput
    /\ runs = NoRuns
    /\ disk = EmptyDisk

LogError(fn) == errors_log \cup {[index |-> hash_index, fn |-> fn]}

\* the same log line, with the exception it carries after "Error:"
LogException(fn, e) ==
    errors_log \cup {[index |-> hash_index, fn |-> fn, error |-> e]}

\* loop header, GitFecth, GitCheckout, PrepareSourceCode finding sources
NextCommit ==
    /\ pc = "loop"
    /\ hash_index < Len(merged_commits)
    /\ hash_index' = hash_index + 1
    /\ pc' = "detect"
    /\ UNCHANGED <<merged_commits, project, genealogy_data, result_xml,
                   pcloneclasses, ci, genealogy_xml, final_xml, errors_log>>
    /\ UNCHANGED <<pureVars, projectVars>>

\* PrepareSourceCode finds no file of the language: logged, continue
SkipCommit ==
    /\ pc = "loop"
    /\ hash_index < Len(merged_commits)
    /\ project = "any"
    /\ hash_index' = hash_index + 1
    /\ errors_log' = errors_log \cup
           {[index |-> hash_index + 1, fn |-> "get_clone_genealogy"]}
    /\ pc' = "loop"
    /\ UNCHANGED <<merged_commits, project, genealogy_data, result_xml,
                   pcloneclasses, ci, genealogy_xml, final_xml>>
    /\ UNCHANGED <<pureVars, projectVars>>

\* the detector runs and its class file is moved to clone_detector_xml
RunCloneDetection ==
    /\ pc = "detect"
    /\ \E out \in (IF project = "scenario"
                   THEN {ScenarioOutputs[hash_index]}
                   ELSE DetectorOutputs) :
           result_xml' = [exists |-> TRUE, classes |-> out]
    /\ pc' = "analysis"
    /\ UNCHANGED <<merged_commits, project, hash_index, genealogy_data,
                   pcloneclasses, ci, genealogy_xml, final_xml, errors_log>>
    /\ UNCHANGED <<pureVars, projectVars>>

\* the detector fails after the old result files were unlinked: logged
RunCloneDetectionFails ==
    /\ pc = "detect"
    /\ project = "any"
    /\ result_xml' = NoResultFile
    /\ errors_log' = LogError("RunCloneDetection")
    /\ pc' = "analysis"
    /\ UNCHANGED <<merged_commits, project, hash_index, genealogy_data,
                   pcloneclasses, ci, genealogy_xml, final_xml>>
    /\ UNCHANGED <<pureVars, projectVars>>

\* RunGenealogyAnalysis up to the choice of the loop (line 249)
RunGenealogyAnalysis ==
    /\ pc = "analysis"
    /\ IF ~result_xml.exists
       THEN /\ errors_log' = LogError("RunGenealogyAnalysis")
            /\ pc' = "write"
            /\ UNCHANGED <<pcloneclasses, ci>>
       ELSE /\ IF parseCloneClassFile(result_xml) = <<>>
               THEN /\ pc' = "write"
                    /\ UNCHANGED <<pcloneclasses, ci>>
               ELSE /\ pcloneclasses' = parseCloneClassFile(result_xml)
                    /\ ci' = 1
                    /\ pc' = IF genealogy_data = <<>> THEN "birth_loop"
                             ELSE "match_loop"
            /\ UNCHANGED errors_log
    /\ UNCHANGED <<merged_commits, project, hash_index, genealogy_data,
                   result_xml, genealogy_xml, final_xml>>
    /\ UNCHANGED <<pureVars, projectVars>>

\* a CloneFragment constructor cannot read its source file: parseCloneClassFile
\* re-raises, RunGenealogyAnalysis logs the exception and returns
FragmentReadFails ==
    /\ pc = "analysis"
    /\ project = "any"
    /\ result_xml.exists
    /\ \E n \in 1..Len(result_xml.classes) :
           result_xml.classes[n].fragments # <<>>
    /\ errors_log' = LogException("RunGenealogyAnalysis", "FileNotFoundError")
    /\ pc' = "write"
    /\ UNCHANGED <<pcloneclasses, ci>>
    /\ UNCHANGED <<merged_commits, project, hash_index, genealogy_data,
                   result_xml, genealogy_xml, final_xml>>
    /\ UNCHANGED <<pureVars, projectVars>>

CurrentCommit == merged_commits[hash_index]

\* the five positional arguments of CloneVersion(pcc, hash_, commitNr,
\* number_pr, author_pr)
BirthArgs(pcc) ==
    << pcc, CurrentCommit.sha, hash_index, CurrentCommit.pr_number,
       CurrentCommit.pr_type >>

\* the ten positional arguments of the call on line 265
ContinuationArgs(pcc, p) ==
    BirthArgs(pcc) \o << p.evolution, p.change, p.n_evo, p.n_change,
                         p.clones_loc >>

\* RunGenealogyAnalysis returns (or its except clause ran): its locals are gone
LeaveAnalysis ==
    /\ pc' = "write"
    /\ pcloneclasses' = <<>>
    /\ ci' = 0

\* next iteration of the loop over pcloneclasses, or the end of the loop
NextClass ==
    IF ci = Len(pcloneclasses)
    THEN LeaveAnalysis
    ELSE /\ ci' = ci + 1
         /\ UNCHANGED <<pc, pcloneclasses>>

\* one iteration of the loop over pcloneclasses on an empty state
BirthStep ==
    /\ pc = "birth_loop"
    /\ genealogy_data' =
           BirthLineage(genealogy_data, CloneVersion(BirthArgs(pcloneclasses[ci])))
    /\ NextClass
    /\ UNCHANGED <<merged_commits, project, hash_index, result_xml,
                   genealogy_xml, final_xml, errors_log>>
    /\ UNCHANGED <<pureVars, projectVars>>

\* one iteration of the loop over pcloneclasses on a non-empty state
MatchStep ==
    /\ pc = "match_loop"
    /\ LET pcc == pcloneclasses[ci]
           k == ScanLineages(genealogy_data, pcc, hash_index, 1)
       IN  IF k = 0
           THEN /\ genealogy_data' =
                       BirthLineage(genealogy_data, CloneVersion(BirthArgs(pcc)))
                /\ NextClass
                /\ UNCHANGED errors_log
           ELSE LET p == GetPattern(Last(genealogy_data[k].versions),
                                    CloneVersion(BirthArgs(pcc)))
                    args == ContinuationArgs(pcc, p)
                IN  IF CloneVersionRaises(args)
                    THEN /\ errors_log' = LogError("RunGenealogyAnalysis")
                         /\ LeaveAnalysis
                         /\ UNCHANGED genealogy_data
                    ELSE /\ genealogy_data' =
                                [genealogy_data EXCEPT ![k].versions =
                                     Append(@, CloneVersion(args))]
                         /\ NextClass
                         /\ UNCHANGED errors_log
    /\ UNCHANGED <<merged_commits, project, hash_index, result_xml,
                   genealogy_xml, final_xml>>
    /\ UNCHANGED <<pureVars, projectVars>>

\* open(filename, "w+") of WriteLineageFile truncates the checkpoint in place
OpenLineageFile ==
    /\ pc = "write"
    /\ genealogy_xml' = TruncatedFile
    /\ pc' = "writing"
    /\ UNCHANGED <<merged_commits, project, hash_index, genealogy_data,
                   result_xml, pcloneclasses, ci, final_xml, errors_log>>
    /\ UNCHANGED <<pureVars, projectVars>>

\* variant of WriteLineageFileFails: the error is logged and the run goes on
WriteLineageFileFails_logged ==
    /\ pc \in {"write", "writing"}
    /\ project = "any"
    /\ errors_log' = LogError("WriteLineageFile")
    /\ pc' = "density"
    /\ UNCHANGED <<merged_commits, project, hash_index, genealogy_data,
                   result_xml, pcloneclasses, ci, genealogy_xml, final_xml>>
    /\ UNCHANGED <<pureVars, projectVars>>

\* open or write raises OSError: nothing catches it in WriteLineageFile or in
\* get_clone_genealogy, the caller receives it
WriteLineageFileFails ==
    /\ pc \in {"write", "writing"}
    /\ project = "any"
    /\ pc' = "write_failed"
    /\ UNCHANGED <<merged_commits, project, hash_index, genealogy_data,
                   result_xml, pcloneclasses, ci, genealogy_xml, final_xml,
                   errors_log>>
    /\ UNCHANGED <<pureVars, projectVars>>

\* the writes of WriteLineageFile and the close of the file
WriteLineageFile ==
    /\ pc = "writing"
    /\ genealogy_xml' = LineagesXML(genealogy_data)
    /\ pc' = "density"
    /\ UNCHANGED <<merged_commits, project, hash_index, genealogy_data,
                   result_xml, pcloneclasses, ci, final_xml, errors_log>>
    /\ UNCHANGED <<pureVars, projectVars>>

\* compute_clone_density parses clone_detector_xml again, outside any try
compute_clone_density ==
    /\ pc = "density"
    /\ pc' = IF result_xml.exists THEN "loop" ELSE "crashed"
    /\ UNCHANGED <<merged_commits, project, hash_index, genealogy_data,
                   result_xml, pcloneclasses, ci, genealogy_xml, final_xml,
                   errors_log>>
    /\ UNCHANGED <<pureVars, projectVars>>

\* variant of Finish: the final file is written whatever the state holds
Finish_alwaysWrite ==
    /\ pc = "loop"
    /\ hash_index = Len(merged_commits)
    /\ pc' = "done"
    /\ final_xml' = LineagesXML(genealogy_data)
    /\ UNCHANGED <<merged_commits, project, hash_index, genealogy_data,
                   result_xml, pcloneclasses, ci, genealogy_xml, errors_log>>
    /\ UNCHANGED <<pureVars, projectVars>>

\* after the loop: the no-clones message, or the final genealogy file
Finish ==
    /\ pc = "loop"
    /\ hash_index = Len(merged_commits)
    /\ IF Len(genealogy_data) = 0
       THEN /\ pc' = "returned_no_clones"
            /\ errors_log' = LogError("get_clone_genealogy")
            /\ UNCHANGED final_xml
       ELSE /\ pc' = "done"
            /\ final_xml' = LineagesXML(genealogy_data)
            /\ UNCHANGED errors_log
    /\ UNCHANGED <<merged_commits, project, hash_index, genealogy_data,
                   result_xml, pcloneclasses, ci, genealogy_xml>>
    /\ UNCHANGED <<pureVars, projectVars>>

Next ==
    \/ NextCommit
    \/ SkipCommit
    \/ RunCloneDetection
    \/ RunCloneDetectionFails
    \/ RunGenealogyAnalysis
    \/ FragmentReadFails
    \/ BirthStep
    \/ MatchStep
    \/ OpenLineageFile
    \/ WriteLineageFile
    \/ WriteLineageFileFails
    \/ compute_clone_density
    \/ Finish

Spec == Init /\ [][Next]_vars

----------------------------------------------------------------------------
(* GetPattern and the match predicate on arbitrary pairs of clone classes *)

RECURSIVE FragsFrom(_, _)
FragsFrom(f, i) ==
    IF i > NumLocs THEN <<>>
    ELSE (IF f[i] = -1 THEN <<>> ELSE <<FragAt(i, f[i])>>) \o FragsFrom(f, i + 1)

\* every non-empty clone class over the first NumLocs locations: a location
\* is named at most once, and the text found there hashes to any of Hashes
ClassUniverse ==
    { CloneClass(FragsFrom(f, 1)) :
        f \in {g \in [1..NumLocs -> Hashes \cup {-1}] :
                  \E i \in 1..NumLocs : g[i] # -1} }

InitPure ==
    /\ project = "any"
    /\ merged_commits = CommitList(2)
    /\ hash_index = 0
    /\ pc = "idle"
    /\ genealogy_data = <<>>
    /\ result_xml = NoResultFile
    /\ pcloneclasses = <<>>
    /\ ci = 0
    /\ genealogy_xml = NoFile
    /\ final_xml = NoFile
    /\ errors_log = {}
    /\ pin1 \in ClassUniverse
    /\ pin2 \in ClassUniverse
    /\ pout = NoOutput
    /\ runs = NoRuns
    /\ disk = EmptyDisk

\* pin1 as the latest version of a lineage, pin2 as the class of the next commit
PrevVersion == CloneVersion(<<pin1, merged_commits[1].sha, 1,
                              merged_commits[1].pr_number,
                              merged_commits[1].pr_type>>)

CandVersion == CloneVersion(<<pin2, merged_commits[2].sha, 2,
                              merged_commits[2].pr_number,
                              merged_commits[2].pr_type>>)

ApplyGetPattern ==
    /\ pc = "idle"
    /\ pout = NoOutput
    /\ pout' = [op |-> "GetPattern", res |-> GetPattern(PrevVersion, CandVersion)]
    /\ UNCHANGED <<pin1, pin2>>
    /\ UNCHANGED <<driverVars, projectVars>>

ApplyLineageMatches ==
    /\ pc = "idle"
    /\ pout = NoOutput
    /\ pout' = [op |-> "matches",
                res |-> Lineage_matches(Lineage(<<PrevVersion>>), pin2)]
    /\ UNCHANGED <<pin1, pin2>>
    /\ UNCHANGED <<driverVars, projectVars>>

\* a.matches(b), b.matches(a) and a.matches(a) for a fragment a of pin1 and
\* a fragment b of pin2
ApplyFragmentMatches ==
    /\ pc = "idle"
    /\ pout = NoOutput
    /\ \E i \in 1..Len(pin1.fragments), j \in 1..Len(pin2.fragments) :
           LET a == pin1.fragments[i]
               b == pin2.fragments[j]
           IN  pout' = [op |-> "CloneFragment.matches", a |-> a, b |-> b,
                        res |-> CloneFragment_matches(a, b),
                        swapped |-> CloneFragment_matches(b, a),
                        self |-> CloneFragment_matches(a, a)]
    /\ UNCHANGED <<pin1, pin2>>
    /\ UNCHANGED <<driverVars, projectVars>>

NextPure ==
    \/ ApplyGetPattern
    \/ ApplyLineageMatches
    \/ ApplyFragmentMatches

SpecPure == InitPure /\ [][NextPure]_vars

----------------------------------------------------------------------------
(* Properties of GetPattern *)

N1 == Len(pin1.fragments)
N2 == Len(pin2.fragments)

\* number of fragments of c2 whose fingerprint equals that of some fragment of c1
ExactMatches(c1, c2) ==
    Cardinality({j \in 1..Len(c2.fragments) :
                    \E i \in 1..Len(c1.fragments) :
                        c1.fragments[i].hash = c2.fragments[j].hash})

\* C1: the evolution code and n_evo depend on the two fragment counts only:
\* equal counts give Same with n_evo 0, fewer fragments in v2 give Subtract
\* with n_evo = |v1| - |v2|, more give Add with n_evo = |v2| - |v1|
C1_EvolutionFromCounts ==
    pout.op = "GetPattern" =>
        /\ (N1 = N2 => pout.res.evolution = "Same" /\ pout.res.n_evo = 0)
        /\ (N1 > N2 => pout.res.evolution = "Subtract"
                       /\ pout.res.n_evo = N1 - N2)
        /\ (N1 < N2 => pout.res.evolution = "Add"
                       /\ pout.res.n_evo = N2 - N1)

C1_Witness ==
    /\ pout.op = "GetPattern"
    /\ N1 = 3 /\ N2 = 1
    /\ pout.res.evolution = "Subtract"
    /\ pout.res.n_evo = 2

\* C2: when evolution is Same or Subtract, change is Same if the number of
\* exact matches equals |v2|, Consistent with n_change = |v2| if it is 0,
\* and otherwise Inconsistent with n_change = |v2| - matches
C2_ChangeSameSubtract ==
    (pout.op = "GetPattern" /\ pout.res.evolution \in {"Same", "Subtract"}) =>
        LET m == ExactMatches(pin1, pin2)
        IN  /\ (m = N2 => pout.res.change = "Same")
            /\ (m = 0 => pout.res.change = "Consistent"
                         /\ pout.res.n_change = N2)
            /\ (m # N2 /\ m # 0 => pout.res.change = "Inconsistent"
                                   /\ pout.res.n_change = N2 - m)

C2_Witness ==
    /\ pout.op = "GetPattern"
    /\ pout.res.evolution = "Subtract"
    /\ pout.res.change = "Inconsistent"
    /\ pout.res.n_change = 1
    /\ ExactMatches(pin1, pin2) = 1

----------------------------------------------------------------------------
(* The match predicate *)

\* every fragment of c has a similarity match among the fragments of d
EveryFragmentMatched(c, d) ==
    \A i \in 1..Len(c.fragments) :
        \E j \in 1..Len(d.fragments) :
            CloneFragment_matches(d.fragments[j], c.fragments[i])

\* C7: a Lineage matches a class exactly when every fragment of the class
\* has a similarity match in the lineage's latest version or every fragment
\* of that version has a similarity match in the class
C7_MatchIsInclusion ==
    pout.op = "matches" =>
        (pout.res <=> (EveryFragmentMatched(pin2, pin1)
                       \/ EveryFragmentMatched(pin1, pin2)))

----------------------------------------------------------------------------
(* Properties of RunGenealogyAnalysis *)

InClassLoop == pc \in {"birth_loop", "match_loop"}

\* the class the next loop iteration handles
Pcc == pcloneclasses[ci]

\* lineages whose latest version satisfies the match predicate for cc
Matching(gd, cc) == {k \in 1..Len(gd) : Lineage_matches(gd[k], cc)}

\* l has a version recorded at revision index r
HasVersionAt(l, r) == \E i \in 1..Len(l.versions) : l.versions[i].nr = r

\* matching lineages that have no version at the current revision
Eligible(gd, cc) == {k \in Matching(gd, cc) : ~HasVersionAt(gd[k], hash_index)}

Min(S) == CHOOSE x \in S : \A y \in S : x <= y

IsPrefix(s, t) == Len(s) <= Len(t) /\ \A i \in 1..Len(s) : s[i] = t[i]

\* C4: a class that matches no existing lineage adds exactly one lineage
\* whose single version is a birth version: evolution None, change None,
\* n_evo 0, n_change 0
C4_BirthOnNoMatch ==
    [][ (InClassLoop /\ Matching(genealogy_data, Pcc) = {}) =>
          /\ Len(genealogy_data') = Len(genealogy_data) + 1
          /\ IsPrefix(genealogy_data, genealogy_data')
          /\ LET l == Last(genealogy_data')
             IN  /\ Len(l.versions) = 1
                 /\ l.versions[1].cloneclass = Pcc
                 /\ l.versions[1].evolution_pattern = "None"
                 /\ l.versions[1].change_pattern = "None"
                 /\ l.versions[1].n_evo = 0
                 /\ l.versions[1].n_change = 0 ]_vars

\* C5: a class matching a lineage not yet extended at this revision extends
\* the first such lineage by one version carrying the revision index and
\* the GetPattern values, and creates no lineage
C5_ContinuationAppended ==
    [][ (InClassLoop /\ Eligible(genealogy_data, Pcc) # {}) =>
          LET k == Min(Eligible(genealogy_data, Pcc))
              p == GetPattern(Last(genealogy_data[k].versions),
                              CloneVersion(BirthArgs(Pcc)))
          IN  /\ Len(genealogy_data') = Len(genealogy_data)
              /\ Len(genealogy_data'[k].versions)
                     = Len(genealogy_data[k].versions) + 1
              /\ IsPrefix(genealogy_data[k].versions,
                          genealogy_data'[k].versions)
              /\ LET nv == Last(genealogy_data'[k].versions)
                 IN  /\ nv.nr = hash_index
                     /\ nv.cloneclass = Pcc
                     /\ nv.evolution_pattern = p.evolution
                     /\ nv.change_pattern = p.change
                     /\ nv.n_evo = p.n_evo
                     /\ nv.n_change = p.n_change
                     /\ nv.clones_loc = p.clones_loc ]_vars

Finished == pc \in {"done", "returned_no_clones", "crashed"}

\* C6: the run over {A,B}, {A,B,C}, {A,C} with one fingerprint ends with
\* one lineage of three versions: birth, then Add/1/Same, then Subtract/1/Same
C6_ScenarioResult ==
    (project = "scenario" /\ Finished) =>
        /\ pc = "done"
        /\ Len(genealogy_data) = 1
        /\ Len(genealogy_data[1].versions) = 3
        /\ LET v == genealogy_data[1].versions
           IN  /\ v[1].evolution_pattern = "None"
               /\ v[1].change_pattern = "None"
               /\ v[2].evolution_pattern = "Add"
               /\ v[2].n_evo = 1
               /\ v[2].change_pattern = "Same"
               /\ v[3].evolution_pattern = "Subtract"
               /\ v[3].n_evo = 1
               /\ v[3].change_pattern = "Same"

\* C8: when several lineages match a class, the class goes to the earliest
\* matching lineage not yet extended at this revision and no other matching
\* lineage is touched
C8_FirstMatchChosen ==
    [][ (/\ InClassLoop
         /\ Cardinality(Matching(genealogy_data, Pcc)) >= 2
         /\ Eligible(genealogy_data, Pcc) # {}) =>
          LET k == Min(Eligible(genealogy_data, Pcc))
          IN  /\ Len(genealogy_data') >= Len(genealogy_data)
              /\ Last(genealogy_data'[k].versions).cloneclass = Pcc
              /\ Last(genealogy_data'[k].versions).nr = hash_index
              /\ \A j \in Matching(genealogy_data, Pcc) \ {k} :
                     genealogy_data'[j] = genealogy_data[j] ]_vars

\* C9: no lineage holds two versions with the same revision index
C9_OneVersionPerRevision ==
    \A k \in 1..Len(genealogy_data) :
        \A i, j \in 1..Len(genealogy_data[k].versions) :
            i # j => genealogy_data[k].versions[i].nr
                         # genealogy_data[k].versions[j].nr

\* a class of the current revision matched a lineage born earlier in the
\* same revision, on a state that already held an older lineage
C9_Witness ==
    /\ hash_index >= 2
    /\ \E o \in 1..Len(genealogy_data) :
           ~HasVersionAt(genealogy_data[o], hash_index)
    /\ \E i, j \in 1..Len(genealogy_data) :
           /\ i < j
           /\ HasVersionAt(genealogy_data[i], hash_index)
           /\ HasVersionAt(genealogy_data[j], hash_index)
           /\ Lineage_matches(genealogy_data[i],
                              Last(genealogy_data[j].versions).cloneclass)

\* cc is recorded as the class of a version at the current revision
RecordedNow(gd, cc) ==
    \E k \in 1..Len(gd) :
        \E i \in 1..Len(gd[k].versions) :
            gd[k].versions[i].nr = hash_index /\ gd[k].versions[i].cloneclass = cc

\* C10: when the analysis of a revision ends, every class of the revision
\* whose first matching lineage already has a version at this revision is
\* recorded at this revision, in a later lineage or in one of its own
C10_DivertedNotDropped ==
    [][ (InClassLoop /\ pc' = "write") =>
          \A n \in 1..Len(pcloneclasses) :
              LET cc == pcloneclasses[n]
                  m == Matching(genealogy_data', cc)
              IN  (m # {} /\ HasVersionAt(genealogy_data'[Min(m)], hash_index))
                      => RecordedNow(genealogy_data', cc) ]_vars

----------------------------------------------------------------------------
(* Properties of the genealogy state over a run *)

C12_StateOnlyGrows ==
    [][ /\ Len(genealogy_data) <= Len(genealogy_data')
        /\ \A k \in 1..Len(genealogy_data) :
               IsPrefix(genealogy_data[k].versions,
                        genealogy_data'[k].versions) ]_vars

\* lineages born at two different revisions are in the state
C12_Witness ==
    \E i, j \in 1..Len(genealogy_data) :
        /\ i < j
        /\ genealogy_data[i].versions[1].nr < genealogy_data[j].versions[1].nr

\* the detector failed at the current revision
DetectorFailedNow ==
    [index |-> hash_index, fn |-> "RunCloneDetection"] \in errors_log

\* the current revision is past detection and has no clone class to offer
NothingDetected ==
    /\ pc \in {"analysis", "birth_loop", "match_loop", "write", "writing",
              "density"}
    /\ \/ DetectorFailedNow
       \/ (result_xml.exists /\ result_xml.classes = <<>>)

\* C13: a revision whose detector fails or reports zero classes leaves the
\* genealogy state as it was
C13_SkippedRevisionKeepsState ==
    [][ (pc \in {"loop", "detect"} \/ NothingDetected)
            => genealogy_data' = genealogy_data ]_vars

\* a failed detection was analysed on a state that already holds a lineage
C13_Witness ==
    /\ pc = "write"
    /\ DetectorFailedNow
    /\ Len(genealogy_data) >= 1

\* C14: a detector failure never ends the run with an uncaught error
C14_DetectorFailureSurvived ==
    (\E e \in errors_log : e.fn = "RunCloneDetection") => pc # "crashed"

----------------------------------------------------------------------------
(* Checkpoints and finalization *)

\* C15: once a revision has been processed, skipped ones included, and before
\* the next one begins, the checkpoint file holds every lineage of the state;
\* the final file written at the end holds them too
C15_CheckpointEveryRevision ==
    /\ (pc = "loop" /\ hash_index >= 1) =>
           genealogy_xml = LineagesXML(genealogy_data)
    /\ pc = "done" => final_xml = LineagesXML(genealogy_data)

\* C16: at finalization a state with zero lineages yields the no-clones
\* result and no file is written; a state with at least one lineage yields
\* the final genealogy file with one record per lineage
C16_Finalization ==
    [][ (pc = "loop" /\ pc' \in {"done", "returned_no_clones"}) =>
            IF Len(genealogy_data) = 0
            THEN /\ pc' = "returned_no_clones"
                 /\ final_xml' = NoFile
                 /\ genealogy_xml' = genealogy_xml
            ELSE /\ pc' = "done"
                 /\ final_xml'.exists
                 /\ Len(final_xml'.lineages) = Len(genealogy_data)
                 /\ \A k \in 1..Len(genealogy_data) :
                        final_xml'.lineages[k] = Lineage_toXML(genealogy_data[k])
      ]_vars

\* a run over processed revisions that found no clone ended with the
\* no-clones result and without a final file
C16_Witness ==
    /\ pc = "returned_no_clones"
    /\ hash_index >= 1
    /\ genealogy_xml.exists
    /\ ~final_xml.exists

\* C17: whenever a concurrent reader looks at the checkpoint file it finds a
\* complete checkpoint, the previous one or the new one, never an empty,
\* truncated or partially written document
C17_ReaderSeesCompleteCheckpoint ==
    genealogy_xml.exists => genealogy_xml.complete

\* the step taken from the write phase left it without the checkpoint of the
\* current state on disk
WriteFailedStep ==
    /\ pc \in {"write", "writing"}
    /\ pc' \notin {"write", "writing"}
    /\ genealogy_xml' # LineagesXML(genealogy_data)

\* C18: a failed checkpoint write is raised to the caller of
\* get_clone_genealogy, and after it the run takes no further step: no later
\* revision is processed and nothing is logged
C18_WriteFailureStopsRun ==
    [][ /\ WriteFailedStep => (pc' = "write_failed" /\ errors_log' = errors_log)
        /\ pc = "write_failed" =>
               (pc' = pc /\ hash_index' = hash_index
                        /\ genealogy_data' = genealogy_data) ]_vars

\* a checkpoint write failed while revisions were still to be processed
C18_Witness ==
    /\ pc = "write_failed"
    /\ hash_index < Len(merged_commits)
    /\ genealogy_xml # LineagesXML(genealogy_data)
    /\ Len(genealogy_data) >= 1

----------------------------------------------------------------------------
(* Unreadable fragments *)

\* a fragment of the current revision's result could not be read
ReadFailedNow ==
    [index |-> hash_index, fn |-> "RunGenealogyAnalysis",
     error |-> "FileNotFoundError"] \in errors_log

\* C19: when a fragment of a revision's result cannot be read, at most the
\* class that owns it is missing from the state once the analysis of the
\* revision is over: every other class is recorded at this revision,
\* continued in a lineage or born as a new one
C19_OnlyOwningClassDropped ==
    (pc = "write" /\ ReadFailedNow) =>
        \E n \in 1..Len(result_xml.classes) :
            \A m \in 1..Len(result_xml.classes) :
                (m # n /\ result_xml.classes[m].fragments # <<>>) =>
                    RecordedNow(genealogy_data, result_xml.classes[m])

----------------------------------------------------------------------------
(* GetPattern on a class that gained one fragment *)

FragSet(c) == {c.fragments[i] : i \in 1..Len(c.fragments)}

\* C20: when v2 is v1 with every fragment unchanged plus one new fragment,
\* GetPattern returns Add with n_evo 1 and Same with n_change 0
C20_OneFragmentAdded ==
    (/\ pout.op = "GetPattern"
     /\ FragSet(pin1) \subseteq FragSet(pin2)
     /\ N2 = N1 + 1) =>
        /\ pout.res.evolution = "Add"
        /\ pout.res.n_evo = 1
        /\ pout.res.change = "Same"
        /\ pout.res.n_change = 0

----------------------------------------------------------------------------
(* Two projects: what get_clone_genealogy derives from git_url *)

\* the last path segment of a repository URL, split at its dots
RepoBases == {<<"tool">>, <<"tool", "git">>, <<"tool", "js">>, <<"lib">>}

\* https://github.com/<owner>/<base>
GitUrls == {[owner |-> o, base |-> b] : o \in {"alice", "bob"}, b \in RepoBases}

\* base[:-4] when base ends with ".git"
StripDotGit(b) ==
    IF Len(b) >= 2 /\ b[Len(b)] = "git" THEN SubSeq(b, 1, Len(b) - 1) ELSE b

\* os.path.splitext(base)[0]: the text before the last dot
SplitExt(b) == IF Len(b) >= 2 THEN SubSeq(b, 1, Len(b) - 1) ELSE b

\* _derive_repo_name: basename of the URL, without ".git" and extension
derive_repo_name(git_url) == SplitExt(StripDotGit(git_url.base))

\* base_dir = cloned_repositories/<repo_name>, the root of every path of ctx
base_dir(git_url) == derive_repo_name(git_url)

WorkspaceDirs == {base_dir(u) : u \in GitUrls}

\* result.xml and genealogy.xml of one workspace, each with the run that
\* wrote it last (0: nobody)
EmptyWorkspace ==
    [result_xml |-> NoResultFile, result_by |-> 0,
     genealogy_xml |-> NoFile, genealogy_by |-> 0]

\* Context(git_url, Paths(), State()) before the paths are assigned
NewContext(git_url) ==
    [git_url |-> git_url, pc |-> "start", ws_dir |-> <<>>, hash_index |-> 0,
     genealogy_data |-> <<>>, parsed_by |-> 0]

InitProjects ==
    /\ project = "any"
    /\ merged_commits = CommitList(1)
    /\ hash_index = 0
    /\ pc = "idle"
    /\ genealogy_data = <<>>
    /\ result_xml = NoResultFile
    /\ pcloneclasses = <<>>
    /\ ci = 0
    /\ genealogy_xml = NoFile
    /\ final_xml = NoFile
    /\ errors_log = {}
    /\ pin1 = EmptyClass
    /\ pin2 = EmptyClass
    /\ pout = NoOutput
    /\ \E u1, u2 \in GitUrls :
           /\ u1 # u2
           /\ runs = <<NewContext(u1), NewContext(u2)>>
    /\ disk = [d \in WorkspaceDirs |-> EmptyWorkspace]

\* lines 330-354: ctx is built and its paths are set from the repository name
Project_SetupPaths(r) ==
    /\ runs[r].pc = "start"
    /\ runs' = [runs EXCEPT ![r].ws_dir = base_dir(runs[r].git_url),
                            ![r].pc = "loop"]
    /\ UNCHANGED disk
    /\ UNCHANGED <<driverVars, pureVars>>

\* loop header of the run r
Project_NextCommit(r) ==
    /\ runs[r].pc = "loop"
    /\ runs[r].hash_index < Len(merged_commits)
    /\ runs' = [runs EXCEPT ![r].hash_index = @ + 1, ![r].pc = "detect"]
    /\ UNCHANGED disk
    /\ UNCHANGED <<driverVars, pureVars>>

\* the detector's class file is moved to paths.clone_detector_xml of the run
Project_RunCloneDetection(r) ==
    /\ runs[r].pc = "detect"
    /\ \E out \in SeqsUpTo(ClassPool, 1) :
           disk' = [disk EXCEPT
                       ![runs[r].ws_dir].result_xml =
                           [exists |-> TRUE, classes |-> out],
                       ![runs[r].ws_dir].result_by = r]
    /\ runs' = [runs EXCEPT ![r].pc = "analysis"]
    /\ UNCHANGED <<driverVars, pureVars>>

\* the loop of lines 249-254 over the classes parsed from a result file
RECURSIVE BirthAll(_, _, _, _)
BirthAll(gd, classes, commit, commitNr) ==
    IF classes = <<>> THEN gd
    ELSE BirthAll(BirthLineage(gd, CloneVersion(<< Head(classes), commit.sha,
                                                  commitNr, commit.pr_number,
                                                  commit.pr_type >>)),
                  Tail(classes), commit, commitNr)

\* RunGenealogyAnalysis of the run r on its still empty state: it parses the
\* file found at its paths.clone_detector_xml
Project_RunGenealogyAnalysis(r) ==
    /\ runs[r].pc = "analysis"
    /\ LET found == disk[runs[r].ws_dir]
       IN  runs' = [runs EXCEPT
                       ![r].genealogy_data =
                           BirthAll(@, parseCloneClassFile(found.result_xml),
                                    merged_commits[runs[r].hash_index],
                                    runs[r].hash_index),
                       ![r].parsed_by = found.result_by,
                       ![r].pc = "write"]
    /\ UNCHANGED disk
    /\ UNCHANGED <<driverVars, pureVars>>

\* WriteLineageFile(ctx, ctx.state.genealogy_data, paths.genealogy_xml)
Project_WriteLineageFile(r) ==
    /\ runs[r].pc = "write"
    /\ disk' = [disk EXCEPT
                   ![runs[r].ws_dir].genealogy_xml =
                       LineagesXML(runs[r].genealogy_data),
                   ![runs[r].ws_dir].genealogy_by = r]
    /\ runs' = [runs EXCEPT ![r].pc = "loop"]
    /\ UNCHANGED <<driverVars, pureVars>>

\* the loop of the run r is over
Project_Finish(r) ==
    /\ runs[r].pc = "loop"
    /\ runs[r].hash_index = Len(merged_commits)
    /\ runs' = [runs EXCEPT ![r].pc = "done"]
    /\ UNCHANGED disk
    /\ UNCHANGED <<driverVars, pureVars>>

\* the two calls run one after the other or interleaved
NextProjects ==
    \/ \E r \in 1..Len(runs) : Project_SetupPaths(r)
    \/ \E r \in 1..Len(runs) : Project_NextCommit(r)
    \/ \E r \in 1..Len(runs) : Project_RunCloneDetection(r)
    \/ \E r \in 1..Len(runs) : Project_RunGenealogyAnalysis(r)
    \/ \E r \in 1..Len(runs) : Project_WriteLineageFile(r)
    \/ \E r \in 1..Len(runs) : Project_Finish(r)

SpecProjects == InitProjects /\ [][NextProjects]_vars

----------------------------------------------------------------------------
(* Algebra of the fragment match *)

\* C21: CloneFragment.matches is reflexive and symmetric: a.matches(a) is
\* true, and a.matches(b) equals b.matches(a)
C21_MatchReflexiveSymmetric ==
    pout.op = "CloneFragment.matches" =>
        /\ pout.self
        /\ pout.res = pout.swapped

\* two fragments at different references with fingerprints that differ in
\* one bit were compared, and match
C21_Witness ==
    /\ pout.op = "CloneFragment.matches"
    /\ pout.a.file # pout.b.file
    /\ pout.a.hash # pout.b.hash
    /\ pout.res

----------------------------------------------------------------------------
(* Exceptions inside RunGenealogyAnalysis *)

\* the except clause of RunGenealogyAnalysis ran at the current revision
AnalysisRaisedNow ==
    \E e \in errors_log : e.index = hash_index /\ e.fn = "RunGenealogyAnalysis"

\* every version of an earlier revision is where it was
OlderVersionsKept ==
    \A k \in 1..Len(genealogy_data) :
        \A i \in 1..Len(genealogy_data[k].versions) :
            genealogy_data[k].versions[i].nr < hash_index =>
                /\ k <= Len(genealogy_data')
                /\ i <= Len(genealogy_data'[k].versions)
                /\ genealogy_data'[k].versions[i] = genealogy_data[k].versions[i]

\* C22: when RunGenealogyAnalysis raises at a revision, the versions of
\* earlier revisions stay where they are, and the driver goes on from that
\* state to the next revision
C22_FailureIsolated ==
    [][ /\ (pc \in {"analysis", "birth_loop", "match_loop"}
              /\ ~AnalysisRaisedNow /\ AnalysisRaisedNow') =>
                 (pc' = "write" /\ OlderVersionsKept)
        /\ (pc = "density" /\ AnalysisRaisedNow) =>
                 (pc' = "loop" /\ genealogy_data' = genealogy_data) ]_vars

----------------------------------------------------------------------------
(* Independence of two projects *)

\* the run r has assigned its paths
PathsSet(r) == runs[r].pc # "start"

\* the run r wrote its checkpoint and has not started to rewrite it
Checkpointed(r) == runs[r].pc \in {"loop", "done"} /\ runs[r].hash_index >= 1

\* C23: two runs for distinct repository URLs share nothing: their workspace
\* directories differ, each parses only the result file it produced, and the
\* checkpoint a run wrote is still its own until it writes the next one
C23_ProjectsIndependent ==
    /\ \A r, q \in 1..Len(runs) :
           (r # q /\ PathsSet(r) /\ PathsSet(q)) =>
               runs[r].ws_dir # runs[q].ws_dir
    /\ \A r \in 1..Len(runs) : runs[r].parsed_by \in {0, r}
    /\ \A r \in 1..Len(runs) :
           Checkpointed(r) =>
               /\ disk[runs[r].ws_dir].genealogy_by = r
               /\ disk[runs[r].ws_dir].genealogy_xml =
                      LineagesXML(runs[r].genealogy_data)

----------------------------------------------------------------------------
(* Counters of GetPattern *)

\* C24: the match count GetPattern uses never exceeds the smaller of the two
\* fragment counts and is the same when v1 and v2 are swapped
C24_MatchCountDirectionless ==
    pout.op = "GetPattern" =>
        LET m == matches_count(pin1.fragments, pin2.fragments)
        IN  /\ m <= Min({N1, N2})
            /\ m = matches_count(pin2.fragments, pin1.fragments)

\* lines of the inclusive range [ls, le] of every fragment of a class
RECURSIVE SumLines(_)
SumLines(frags) ==
    IF frags = <<>> THEN 0
    ELSE (Head(frags).le - Head(frags).ls + 1) + SumLines(Tail(frags))

\* C25: clones_loc returned by GetPattern is the number of lines of v2's
\* fragments minus that of v1's, a fragment [ls, le] having le - ls + 1 lines
C25_LocDelta ==
    pout.op = "GetPattern" =>
        pout.res.clones_loc = SumLines(pin2.fragments) - SumLines(pin1.fragments)

\* C28: the counters agree with the codes: n_evo is 0 exactly for Same,
\* n_change lies in 0..|v2| and is 0 exactly when change is Same
C28_CountersAgreeWithCodes ==
    pout.op = "GetPattern" =>
        /\ (pout.res.n_evo = 0) <=> (pout.res.evolution = "Same")
        /\ pout.res.n_change \in 0..N2
        /\ (pout.res.n_change = 0) <=> (pout.res.change = "Same")

----------------------------------------------------------------------------
(* Same textual reference *)

SameReference(a, b) == a.file = b.file /\ a.ls = b.ls /\ a.le = b.le

\* c and d name the same references, fragment by fragment
SameLocations(c, d) ==
    /\ Len(c.fragments) = Len(d.fragments)
    /\ \A i \in 1..Len(c.fragments) :
           SameReference(c.fragments[i], d.fragments[i])

\* C26: two fragments with the same file and line range match whatever their
\* fingerprints, fingerprint similarity decides only when the references
\* differ; so a class that keeps its locations matches its lineage even
\* when every fragment was rewritten
C26_SameReferenceMatches ==
    /\ pout.op = "CloneFragment.matches" =>
           IF SameReference(pout.a, pout.b)
           THEN pout.res
           ELSE pout.res = match_hashes(pout.a.hash, pout.b.hash, MatchThreshold)
    /\ (pout.op = "matches" /\ SameLocations(pin1, pin2)) => pout.res

\* a class was matched against a lineage whose class has the same locations
\* and, in every fragment, a dissimilar fingerprint
C26_Witness ==
    /\ pout.op = "matches"
    /\ SameLocations(pin1, pin2)
    /\ N1 >= 2
    /\ \A i \in 1..N1 :
           ~match_hashes(pin1.fragments[i].hash, pin2.fragments[i].hash,
                         MatchThreshold)
    /\ pout.res

----------------------------------------------------------------------------
(* What a revision leaves in the state *)

\* versions recorded at revision r, over all lineages
VersionsAt(gd, r) ==
    UNION { { <<k, i>> : i \in {j \in 1..Len(gd[k].versions) :
                                   gd[k].versions[j].nr = r} } :
            k \in 1..Len(gd) }

\* the analysis of the current revision ends at this step
AnalysisEnds ==
    pc \in {"analysis", "birth_loop", "match_loop"} /\ pc' = "write"

\* C27: when RunGenealogyAnalysis ends a revision without an exception, the
\* versions recorded at that revision are as many as the non-empty classes of
\* the detector's result, and each of those classes is the class of exactly
\* one of them
C27_OneVersionPerClass ==
    [][ (AnalysisEnds /\ ~AnalysisRaisedNow') =>
            LET classes == parseCloneClassFile(result_xml)
                at == VersionsAt(genealogy_data', hash_index)
            IN  /\ Cardinality(at) = Len(classes)
                /\ \A n \in 1..Len(classes) :
                       Cardinality({p \in at :
                           genealogy_data'[p[1]].versions[p[2]].cloneclass
                               = classes[n]}) = 1 ]_vars

\* a revision that follows an earlier one ended without an exception and
\* with two classes recorded
C27_Witness ==
    /\ pc = "write"
    /\ hash_index >= 2
    /\ ~AnalysisRaisedNow
    /\ result_xml.exists
    /\ Len(parseCloneClassFile(result_xml)) >= 2
    /\ Cardinality(VersionsAt(genealogy_data, hash_index)) >= 2
    /\ \E k \in 1..Len(genealogy_data) :
           genealogy_data[k].versions[1].nr < hash_index

\* C29: a revision is applied all-or-nothing: once RunGenealogyAnalysis has
\* raised at a revision, no version of that revision is in the state
C29_AllOrNothing ==
    (AnalysisRaisedNow /\ pc \in {"write", "writing", "density", "loop"}) =>
        VersionsAt(genealogy_data, hash_index) = {}

\* C30: every version holds the commit hash, the revision index and the
\* author of the descriptor it was created from, and its serialized record
\* carries them in hash, nr and author, with the classification codes in
\* evolution and change
C30_VersionCarriesDescriptor ==
    \A k \in 1..Len(genealogy_data) :
        \A i \in 1..Len(genealogy_data[k].versions) :
            LET v == genealogy_data[k].versions[i]
                c == merged_commits[v.nr]
                x == CloneVersion_toXML(v)
            IN  /\ v.hash = c.sha
                /\ v.author_pr = c.pr_type
                /\ x.nr = v.nr
                /\ x.hash = c.sha
                /\ x.author = c.pr_type
                /\ x.evolution \in {"None", "Same", "Add", "Subtract"}
                /\ x.change \in {"None", "Same", "Consistent", "Inconsistent"}

====
